---------------------------- MODULE Spec2Model ----------------------------
(***************************************************************************)
(* nbodysim (src/src/main.rs): the host side of the particle simulation.   *)
(*                                                                         *)
(* The state is the state captured by the event-loop closure of run()      *)
(* (camera, fly speed, held keys, the Globals block, the window size) and  *)
(* the GPU side it drives (the command queue and the three buffers).       *)
(*                                                                         *)
(* Numbers.  Lengths are in units of 1000 m, so that the program's 2E10,   *)
(* 1E10, 3E7 and 1E6 fit TLC's integers; f32 arithmetic is taken as exact  *)
(* arithmetic rounded down to that unit.  Directions are unit vectors of   *)
(* the integer lattice and pointer motion comes in quarter turns, which    *)
(* makes every rotation exact.                                             *)
(*                                                                         *)
(* Before the loop, main() builds the particle vector; one iteration of    *)
(* generate_galaxy is followed in `disk`, with units of its own (see       *)
(* DiskParticle).  `recent_press` and `last` are history variables.        *)
(***************************************************************************)
EXTENDS Integers, Sequences, FiniteSets, TLC

VARIABLES
    globals,           \* Globals: matrix, camera_pos, particles, delta
    camera_dir,        \* main.rs:323
    right,             \* main.rs:334
    fly_speed,         \* main.rs:330
    pressed_keys,      \* main.rs:332
    size,              \* main.rs:129, physical window size <<width, height>>
    swap_chain_descriptor, \* main.rs:313
    fullscreen,        \* window.fullscreen().is_some()
    control_flow,      \* *control_flow
    redraw_requested,  \* window.request_redraw() pending
    queue,             \* command buffers submitted to the GPU queue, not yet run
    gpu_pc,            \* commands of Head(queue) the GPU has already run
    globals_buffer,    \* GPU buffer, binding 0
    old_buffer,        \* GPU buffer, binding 1
    current_buffer,    \* GPU buffer, binding 2
    frames,            \* number of command buffers submitted so far
    disk,              \* generate_galaxy: the loop iteration in progress
    recent_press,      \* history: keys whose latest keyboard event is a press
    last               \* the event or GPU step that produced this state, with
                       \* the key, wheel delta, motion or command it carried

vars == <<globals, camera_dir, right, fly_speed, pressed_keys, size,
          swap_chain_descriptor, fullscreen, control_flow, redraw_requested,
          queue, gpu_pc, globals_buffer, old_buffer, current_buffer, frames,
          disk, recent_press, last>>

host == <<globals, camera_dir, right, fly_speed, pressed_keys, size,
          swap_chain_descriptor, fullscreen, control_flow, redraw_requested>>

gpu == <<queue, gpu_pc, globals_buffer, old_buffer, current_buffer>>

-----------------------------------------------------------------------------
(* Bounds of the model *)

MaxFrames == 2      \* redraws handled in one run

MaxHeld == 2        \* keys held down at the same time

RadiusSamples == 8  \* the random sample u takes the values k / RadiusSamples

-----------------------------------------------------------------------------
(* Vectors (cgmath::Vector3 / Point3) *)

Abs(n) == IF n < 0 THEN -n ELSE n

FMin(a, b) == IF a < b THEN a ELSE b         \* f32::min

FMax(a, b) == IF a > b THEN a ELSE b         \* f32::max

Vec(x, y, z) == <<x, y, z>>

VAdd(a, b) == <<a[1] + b[1], a[2] + b[2], a[3] + b[3]>>

VScale(a, s) == <<a[1] * s, a[2] * s, a[3] * s>>

VNeg(a) == <<-a[1], -a[2], -a[3]>>

Dot(a, b) == a[1] * b[1] + a[2] * b[2] + a[3] * b[3]

Cross(a, b) ==
    <<a[2] * b[3] - a[3] * b[2],
      a[3] * b[1] - a[1] * b[3],
      a[1] * b[2] - a[2] * b[1]>>

\* |a| of a vector along one axis, the only vectors normalize() is given here
Magnitude(a) == Abs(a[1]) + Abs(a[2]) + Abs(a[3])

\* InnerSpace::normalize: a / |a|
Normalize(a) ==
    <<a[1] \div Magnitude(a), a[2] \div Magnitude(a), a[3] \div Magnitude(a)>>

WorldUp == Vec(0, 1, 0)

\* cos and sin of q quarter turns
Cos4(q) == CASE q % 4 = 0 -> 1 [] q % 4 = 2 -> -1 [] OTHER -> 0

Sin4(q) == CASE q % 4 = 1 -> 1 [] q % 4 = 3 -> -1 [] OTHER -> 0

\* Quaternion::from_axis_angle(axis, q quarter turns).rotate_vector(v),
\* for a unit axis (Rodrigues' formula)
RotateVector(axis, q, v) ==
    VAdd(VAdd(VScale(v, Cos4(q)), VScale(Cross(axis, v), Sin4(q))),
         VScale(axis, Dot(axis, v) * (1 - Cos4(q))))


-----------------------------------------------------------------------------
(* Program constants *)

Amount == 10000                  \* particles per disk, main.rs:99-100

ParticleStride == 48             \* size_of::<Particle>(), main.rs:13-24

GlobalsSize == 96                \* size_of::<Globals>(), main.rs:26-34

InitialFlySpeed == 30000         \* 3E7 m, main.rs:330

MinFlySpeed == 1000              \* 1E6 m, main.rs:443

MaxFlySpeed == 10000000          \* 1E10 m, main.rs:443

InitialCameraPos == Vec(20000000, 0, 0)    \* 2E10 m, main.rs:105

InitialSize == <<1024, 768>>     \* window.inner_size() of a new window

\* event::VirtualKeyCode: the keys the program names, and one it does not
DigitKeys ==
    {"Key0", "Key1", "Key2", "Key3", "Key4", "Key5", "Key6", "Key7", "Key8",
     "Key9"}

MoveKeys == {"A", "D", "W", "S", "Space", "LShift"}

VirtualKeyCode == DigitKeys \cup MoveKeys \cup {"Escape", "F11", "Q"}

-----------------------------------------------------------------------------
(* main(): the particle vector and the Globals block *)

\* The body of generate_galaxy's loop, main.rs:55-76.  Here a position is in
\* units of 200 km and a velocity in units of 200 m/s, while the local
\* `radius` is in units of 1000 km and `speed` in km/s: an angle is given by
\* <<5 cos, 5 sin>>, a point of the integer lattice on the circle of radius
\* 5, so that radius * angle[1] is radius * cos in units of 200 km, exactly.
\* Masses are in units of 1E30 kg.  Particle::new also derives the displayed
\* radius of the body from mass and density; that field is left out.

Center1 ==                                   \* main.rs:83-88
    [pos |-> Vec(0, 7500, 10000), vel |-> Vec(0, 0, -250), mass |-> 1]

Center2 ==                                   \* main.rs:89-94
    [pos |-> Vec(0, -7500, -10000), vel |-> Vec(0, 0, 250), mass |-> 1]

\* gen::<f32>() * 2.0 * PI, main.rs:57: the angles whose cosine and sine are
\* multiples of 1/5
Angles == {a \in (-5..5) \X (-5..5) : a[1] * a[1] + a[2] * a[2] = 25}

\* G * 1E30 kg, in (km/s)^2 * 1000 km, main.rs:11
GravitationalParameter == 66740800

\* f64::sqrt, rounded down
ISqrt(x) == CHOOSE r \in 0..x : r * r <= x /\ x < (r + 1) * (r + 1)

\* the inner edge of the disk at 4E7
SampledRadiusInner4E7(u) ==
    40 + (3000 * u * u) \div (RadiusSamples * RadiusSamples)

\* 4E8 + u.powf(2.0) * 3E9 for u = k / RadiusSamples, main.rs:56
SampledRadius(u) ==
    400 + (3000 * u * u) \div (RadiusSamples * RadiusSamples)

\* only the x component turns with the sense of rotation
DiskParticleTurnsX(center, clockwise, u, angle) ==
    LET radius == SampledRadius(u)
        speed == ISqrt((GravitationalParameter * center.mass) \div radius)
    IN  [pos |-> Vec(center.pos[1] + radius * angle[1],
                     center.pos[2] + radius * angle[2],
                     center.pos[3]),
         vel |-> Vec(center.vel[1]
                       + speed * angle[2] * (IF clockwise THEN -1 ELSE 1),
                     center.vel[2] + speed * angle[1],
                     center.vel[3]),
         mass |-> 0]

\* the particle one iteration pushes, main.rs:56-76
DiskParticle(center, clockwise, u, angle) ==
    LET radius == SampledRadius(u)
        speed == ISqrt((GravitationalParameter * center.mass) \div radius)
    IN  [pos |-> Vec(center.pos[1] + radius * angle[1],
                     center.pos[2] + radius * angle[2],
                     center.pos[3]),
         vel |-> Vec(center.vel[1]
                       + speed * angle[2] * (IF clockwise THEN -1 ELSE 1),
                     center.vel[2]
                       + speed * angle[1] * (IF clockwise THEN 1 ELSE -1),
                     center.vel[3]),
         mass |-> 0]

generate_galaxy_short(particles, amount) == particles + (amount - 1)

\* generate_galaxy pushes one particle per iteration of 0..amount; the vector
\* is modelled by its length
generate_galaxy(particles, amount) == particles + amount

\* particles.len() after main.rs:96-100
ParticlesLen == generate_galaxy(generate_galaxy(2, Amount), Amount)

\* the element count taken for a byte count
particles_size_count(len) == len

\* main.rs:124
particles_size(len) == len * ParticleStride

RECURSIVE Gcd(_, _)
Gcd(a, b) == IF b = 0 THEN a ELSE Gcd(b, a % b)

\* size.width as f32 / size.height as f32, as a fraction in lowest terms
Aspect(sz) == <<sz[1] \div Gcd(sz[1], sz[2]), sz[2] \div Gcd(sz[1], sz[2])>>

\* build_matrix: the product perspective * look_at_dir * translation, kept as
\* its three factors
build_matrix(pos, dir, aspect) ==
    [perspective |-> aspect,
     look_at_dir |-> <<pos, dir, WorldUp>>,
     translation |-> pos]

\* Matrix4::from_translation alone, main.rs:104
TranslationMatrix(v) ==
    [perspective |-> <<0, 0>>,
     look_at_dir |-> <<Vec(0, 0, 0), Vec(0, 0, 0), Vec(0, 0, 0)>>,
     translation |-> v]

-----------------------------------------------------------------------------
(* The GPU side *)

\* Contents of a particle buffer: whether it was ever written, and the time
\* steps (seconds) integrated since the seed.
Uninit == [init |-> FALSE, steps |-> <<>>]     \* create_buffer, main.rs:196

Seed == [init |-> TRUE, steps |-> <<>>]        \* fill_from_slice, main.rs:212

\* shader.vert, run once per drawn vertex with the bind group of
\* main.rs:245-273: reads Globals and `old` (read-only binding 1) and writes
\* `current` (read-write binding 2), integrating for Globals.delta seconds.
VertexStage(g, old, cur, count) ==
    IF count = 0 THEN cur
    ELSE [init |-> old.init, steps |-> Append(old.steps, g.delta)]

\* byte sizes the buffers are created with: old_buffer by create_buffer with
\* size particles_size (main.rs:196-201), current_buffer by
\* create_buffer_mapped for particles.len() elements (main.rs:204-212), the
\* Globals buffers for one element (main.rs:191-193, 496-501)
BufferSize(buffer) ==
    CASE buffer = "old" -> particles_size(ParticlesLen)
      [] buffer = "current" -> ParticlesLen * ParticleStride
      [] OTHER -> 1 * GlobalsSize

\* encoder.copy_buffer_to_buffer(src, src_offset, dst, dst_offset, bytes);
\* data is what a freshly mapped source buffer was filled with
CopyCommand(src, src_offset, data, dst, dst_offset, bytes) ==
    [op |-> "copy_buffer_to_buffer", src |-> src, src_offset |-> src_offset,
     data |-> data, dst |-> dst, dst_offset |-> dst_offset, bytes |-> bytes]

\* the copy reads all of src and writes all of dst
CoversBoth(cmd) ==
    /\ cmd.src_offset = 0
    /\ cmd.dst_offset = 0
    /\ cmd.bytes = BufferSize(cmd.src)
    /\ cmd.bytes = BufferSize(cmd.dst)

\* a particle buffer after a copy into it: the source's contents if the copy
\* covers both buffers, else what it held, written only in part
Copied(cmd, from, to) ==
    IF CoversBoth(cmd) THEN from
    ELSE [init |-> to.init /\ from.init, steps |-> to.steps]

RenderPassCommand(count) ==
    [op |-> "render_pass", bind_group |-> <<"globals", "old", "current">>,
     draw |-> count]

\* main.rs:496-508: a new mapped buffer filled with globals, copied to
\* globals_buffer
UploadGlobals(g) ==
    CopyCommand("new_globals", 0, <<g>>, "globals", 0, GlobalsSize)

CopyParticlesReversed ==
    CopyCommand("old", 0, <<>>, "current", 0, particles_size(ParticlesLen))

\* main.rs:510-516
CopyParticles ==
    CopyCommand("current", 0, <<>>, "old", 0, particles_size(ParticlesLen))

\* main.rs:517-536
RenderPass == RenderPassCommand(ParticlesLen)

EncodeUploadLast(g) == <<CopyParticles, RenderPass, UploadGlobals(g)>>

EncodeNoCopy(g) == <<UploadGlobals(g), RenderPass>>

EncodeRenderFirst(g) == <<UploadGlobals(g), RenderPass, CopyParticles>>

\* the encoder's commands at encoder.finish(), main.rs:458-538
Encode(g) == <<UploadGlobals(g), CopyParticles, RenderPass>>


-----------------------------------------------------------------------------
(* State after run() has reached event_loop.run, main.rs:123-337 *)

RunInit ==
    /\ camera_dir = Normalize(VNeg(InitialCameraPos))
    /\ globals =
         [matrix |-> build_matrix(InitialCameraPos,
                                  Normalize(VNeg(InitialCameraPos)),
                                  Aspect(InitialSize)),
          camera_pos |-> InitialCameraPos,
          particles |-> ParticlesLen,
          delta |-> 0]
    /\ right = Normalize(Cross(Normalize(VNeg(InitialCameraPos)), WorldUp))
    /\ fly_speed = InitialFlySpeed
    /\ pressed_keys = {}
    /\ size = InitialSize
    /\ swap_chain_descriptor = [width |-> InitialSize[1], height |-> InitialSize[2]]
    /\ fullscreen = FALSE
    /\ control_flow = "Poll"
    /\ redraw_requested = FALSE
    /\ queue = <<>>
    /\ gpu_pc = 0
    /\ globals_buffer =
         [matrix |-> TranslationMatrix(Vec(0, 0, 0)),
          camera_pos |-> InitialCameraPos,
          particles |-> ParticlesLen,
          delta |-> 0]
    /\ old_buffer = Uninit
    /\ current_buffer = Seed
    /\ frames = 0
    /\ recent_press = {}
    /\ last = [ev |-> "Init", arg |-> <<>>]

\* generate_galaxy has returned: no iteration is in progress
Generated == [pc |-> "done"]

Init == RunInit /\ disk = Generated

\* An iteration of generate_galaxy's loop with its two random numbers drawn,
\* in one of main's two calls (main.rs:99-100).  The closure's state does not
\* exist yet; it is shown with the values run() will give it.
Sampled(center, clockwise, u, angle) ==
    [pc |-> "sampled", center |-> center, clockwise |-> clockwise, u |-> u,
     angle |-> angle]

InitGalaxy ==
    /\ RunInit
    /\ \E call \in {<<Center1, TRUE>>, <<Center2, FALSE>>} :
         \E u \in 0..(RadiusSamples - 1) : \E angle \in Angles :
           disk = Sampled(call[1], call[2], u, angle)

\* main.rs:59-76: the iteration computes its particle and pushes it
GenerateGalaxyIteration ==
    /\ disk.pc = "sampled"
    /\ disk' = [pc |-> "pushed", center |-> disk.center,
                clockwise |-> disk.clockwise, u |-> disk.u,
                angle |-> disk.angle,
                particle |-> DiskParticle(disk.center, disk.clockwise,
                                          disk.u, disk.angle)]
    /\ UNCHANGED host
    /\ UNCHANGED gpu
    /\ UNCHANGED <<frames, recent_press, last>>

NextGalaxy == GenerateGalaxyIteration

SpecGalaxy == InitGalaxy /\ [][NextGalaxy]_vars

\* The closure runs for an event only while the loop has not been told to
\* exit; it starts by resetting *control_flow, main.rs:338-342.
Running == control_flow = "Poll"

-----------------------------------------------------------------------------
(* Keyboard, main.rs:362-431 *)

TimeStepOf(keycode) ==
    CASE keycode = "Key0" -> 0
      [] keycode = "Key1" -> 10
      [] keycode = "Key2" -> 20
      [] keycode = "Key3" -> 40
      [] keycode = "Key4" -> 80
      [] keycode = "Key5" -> 160
      [] keycode = "Key6" -> 320
      [] keycode = "Key7" -> 640
      [] keycode = "Key8" -> 1280
      [] keycode = "Key9" -> 2560

\* digit d selects the entry after its own
KeyDeltaShifted(g, keycode) ==
    IF keycode \in DigitKeys
    THEN [g EXCEPT !.delta =
            IF keycode = "Key9" THEN 0 ELSE 2 * FMax(TimeStepOf(keycode), 5)]
    ELSE g

KeyDeltaLinear(g, keycode) ==
    IF keycode \in DigitKeys
    THEN [g EXCEPT !.delta =
            IF keycode = "Key0" THEN 0 ELSE TimeStepOf(keycode) + 10]
    ELSE g

\* W moves the camera as soon as it is pressed
KeyDeltaMovesOnPress(g, keycode) ==
    IF keycode \in DigitKeys THEN [g EXCEPT !.delta = TimeStepOf(keycode)]
    ELSE IF keycode = "W"
    THEN [g EXCEPT !.camera_pos =
            VAdd(g.camera_pos, VScale(camera_dir, fly_speed))]
    ELSE g

\* the match on keycode, as far as it touches globals, main.rs:376-405
KeyDelta(g, keycode) ==
    IF keycode \in DigitKeys THEN [g EXCEPT !.delta = TimeStepOf(keycode)]
    ELSE g

\* Q quits as well
KeyControlFlowQuitOnQ(keycode) ==
    IF keycode \in {"Escape", "Q"} THEN "Exit" ELSE "Poll"

\* *control_flow after a key press: Poll from main.rs:338-342, Exit from the
\* Escape arm, main.rs:373-375
KeyControlFlow(keycode) == IF keycode = "Escape" THEN "Exit" ELSE "Poll"

\* only the keys without an arm of their own are recorded
InsertedUnlessNamed(keys, keycode) ==
    IF keycode \in DigitKeys \cup {"Escape", "F11"} THEN keys
    ELSE keys \cup {keycode}

\* pressed_keys.insert(keycode), after the match, main.rs:417
Inserted(keys, keycode) == keys \cup {keycode}

\* pressed_keys.remove(&keycode), main.rs:430
Removed(keys, keycode) == keys \ {keycode}

KeyPressed(keycode) ==
    /\ Running
    /\ Cardinality(pressed_keys \cup {keycode}) <= MaxHeld
    /\ control_flow' = KeyControlFlow(keycode)
    /\ globals' = KeyDelta(globals, keycode)
    /\ fullscreen' = IF keycode = "F11" THEN ~fullscreen ELSE fullscreen
    /\ pressed_keys' = Inserted(pressed_keys, keycode)
    /\ recent_press' = recent_press \cup {keycode}
    /\ last' = [ev |-> "KeyPressed", arg |-> <<keycode>>]
    /\ UNCHANGED <<camera_dir, right, fly_speed, size, swap_chain_descriptor,
                   redraw_requested, frames>>
    /\ UNCHANGED gpu
    /\ UNCHANGED disk

KeyReleased(keycode) ==
    /\ Running
    /\ control_flow' = "Poll"
    /\ pressed_keys' = Removed(pressed_keys, keycode)
    /\ recent_press' = recent_press \ {keycode}
    /\ last' = [ev |-> "KeyReleased", arg |-> <<>>]
    /\ UNCHANGED <<globals, camera_dir, right, fly_speed, size,
                   swap_chain_descriptor, fullscreen, redraw_requested, frames>>
    /\ UNCHANGED gpu
    /\ UNCHANGED disk


-----------------------------------------------------------------------------
(* Mouse wheel, main.rs:434-444 *)

LineDelta(c) == [kind |-> "LineDelta", v |-> c]

PixelDelta(y) == [kind |-> "PixelDelta", v |-> y]

\* c as f32 / 8.0, or pos.y as f32 / 64.0, in 64ths
ScrollUnits64(delta) ==
    IF delta.kind = "LineDelta" THEN 8 * delta.v ELSE delta.v

ScrollFactorClampedUnits64(delta) ==
    64 + FMax(FMin(ScrollUnits64(delta), 256), -256)

\* (1.0 + units).min(4.0).max(0.25), in 64ths
ScrollFactor64(delta) == FMax(FMin(64 + ScrollUnits64(delta), 256), 16)

\* speed * f / 64, rounded down
Times64th(speed, f) == (speed \div 64) * f + ((speed % 64) * f) \div 64

ClampFlySpeedNone(speed) == speed

\* fly_speed.min(1E10).max(1E6)
ClampFlySpeed(speed) == FMax(FMin(speed, MaxFlySpeed), MinFlySpeed)

Scrolled(speed, delta) == ClampFlySpeed(Times64th(speed, ScrollFactor64(delta)))

MouseWheel(delta) ==
    /\ Running
    /\ control_flow' = "Poll"
    /\ fly_speed' = Scrolled(fly_speed, delta)
    /\ last' = [ev |-> "MouseWheel", arg |-> <<delta.kind, delta.v>>]
    /\ UNCHANGED <<globals, camera_dir, right, pressed_keys, size,
                   swap_chain_descriptor, fullscreen, redraw_requested, frames>>
    /\ UNCHANGED gpu
    /\ UNCHANGED <<disk, recent_press>>

-----------------------------------------------------------------------------
(* Pointer motion, main.rs:345-353.  delta = (qx, qy) * 150 pi, so that     *)
(* delta / 300 is qx, qy quarter turns.                                     *)

LookWithFreshRight(dir, r, qx, qy) ==
    RotateVector(Normalize(Cross(RotateVector(WorldUp, -qx, dir), WorldUp)),
                 qy, RotateVector(WorldUp, -qx, dir))

Look(dir, r, qx, qy) ==
    RotateVector(r, qy, RotateVector(WorldUp, -qx, dir))

MouseMotion(qx, qy) ==
    /\ Running
    /\ control_flow' = "Poll"
    /\ camera_dir' = Look(camera_dir, right, qx, qy)
    /\ last' = [ev |-> "MouseMotion", arg |-> <<qx, qy>>]
    /\ UNCHANGED <<globals, right, fly_speed, pressed_keys, size,
                   swap_chain_descriptor, fullscreen, redraw_requested, frames>>
    /\ UNCHANGED gpu
    /\ UNCHANGED <<disk, recent_press>>

-----------------------------------------------------------------------------
(* Resize, main.rs:447-453 *)

\* LogicalSize::to_physical
ToPhysical(new_size, hidpi_factor) ==
    <<new_size[1] * hidpi_factor, new_size[2] * hidpi_factor>>

Resized(new_size, hidpi_factor) ==
    /\ Running
    /\ control_flow' = "Poll"
    /\ size' = ToPhysical(new_size, hidpi_factor)
    /\ swap_chain_descriptor' =
         [width |-> ToPhysical(new_size, hidpi_factor)[1],
          height |-> ToPhysical(new_size, hidpi_factor)[2]]
    /\ last' = [ev |-> "Resized",
                arg |-> <<new_size[1], new_size[2], hidpi_factor>>]
    /\ UNCHANGED <<globals, camera_dir, right, fly_speed, pressed_keys,
                   fullscreen, redraw_requested, frames>>
    /\ UNCHANGED gpu
    /\ UNCHANGED <<disk, recent_press>>

-----------------------------------------------------------------------------
(* Close, idle and every other event, main.rs:357-359, 540-547 *)

CloseRequested ==
    /\ Running
    /\ control_flow' = "Exit"
    /\ last' = [ev |-> "CloseRequested", arg |-> <<>>]
    /\ UNCHANGED <<globals, camera_dir, right, fly_speed, pressed_keys, size,
                   swap_chain_descriptor, fullscreen, redraw_requested, frames>>
    /\ UNCHANGED gpu
    /\ UNCHANGED <<disk, recent_press>>

\* the idle cycle asks for nothing
EventsClearedNoRequest ==
    /\ Running
    /\ control_flow' = "Poll"
    /\ redraw_requested' = redraw_requested
    /\ last' = [ev |-> "EventsCleared", arg |-> <<>>]
    /\ UNCHANGED <<globals, camera_dir, right, fly_speed, pressed_keys, size,
                   swap_chain_descriptor, fullscreen, frames>>
    /\ UNCHANGED gpu
    /\ UNCHANGED <<disk, recent_press>>

EventsCleared ==
    /\ Running
    /\ control_flow' = "Poll"
    /\ redraw_requested' = TRUE
    /\ last' = [ev |-> "EventsCleared", arg |-> <<>>]
    /\ UNCHANGED <<globals, camera_dir, right, fly_speed, pressed_keys, size,
                   swap_chain_descriptor, fullscreen, frames>>
    /\ UNCHANGED gpu
    /\ UNCHANGED <<disk, recent_press>>

OtherEvent ==
    /\ Running
    /\ control_flow' = "Poll"
    /\ last' = [ev |-> "Other", arg |-> <<>>]
    /\ UNCHANGED <<globals, camera_dir, right, fly_speed, pressed_keys, size,
                   swap_chain_descriptor, fullscreen, redraw_requested, frames>>
    /\ UNCHANGED gpu
    /\ UNCHANGED <<disk, recent_press>>


-----------------------------------------------------------------------------
(* Redraw, main.rs:456-539 *)

\* main.rs:462-463
RightOf(dir, r) == Normalize(Cross(dir, WorldUp))

MoveTwice(pos, keys, r, dir, speed) ==
    LET step == (IF "W" \in keys THEN 2 ELSE 0) - (IF "S" \in keys THEN 2 ELSE 0)
        side == (IF "D" \in keys THEN 2 ELSE 0) - (IF "A" \in keys THEN 2 ELSE 0)
        lift == (IF "LShift" \in keys THEN 2 ELSE 0)
                - (IF "Space" \in keys THEN 2 ELSE 0)
    IN  VAdd(VAdd(VAdd(pos, VScale(r, side * speed)),
                  VScale(dir, step * speed)),
             Vec(0, lift * speed, 0))

\* main.rs:465-487, one `if` after the other
Move(pos, keys, r, dir, speed) ==
    LET p1 == IF "A" \in keys THEN VAdd(pos, VScale(VNeg(r), speed)) ELSE pos
        p2 == IF "D" \in keys THEN VAdd(p1, VScale(r, speed)) ELSE p1
        p3 == IF "W" \in keys THEN VAdd(p2, VScale(dir, speed)) ELSE p2
        p4 == IF "S" \in keys THEN VAdd(p3, VScale(VNeg(dir), speed)) ELSE p3
        p5 == IF "Space" \in keys THEN Vec(p4[1], p4[2] - speed, p4[3]) ELSE p4
        p6 == IF "LShift" \in keys THEN Vec(p5[1], p5[2] + speed, p5[3]) ELSE p5
    IN  p6

\* the projection keeps the aspect ratio the window was created with
RedrawnStartupAspect(g, keys, r, dir, speed, sz) ==
    [g EXCEPT
       !.camera_pos = Move(g.camera_pos, keys, r, dir, speed),
       !.matrix = build_matrix(Move(g.camera_pos, keys, r, dir, speed), dir,
                               Aspect(InitialSize))]

\* globals once the handler reaches main.rs:493
Redrawn(g, keys, r, dir, speed, sz) ==
    [g EXCEPT
       !.camera_pos = Move(g.camera_pos, keys, r, dir, speed),
       !.matrix = build_matrix(Move(g.camera_pos, keys, r, dir, speed), dir,
                               Aspect(sz))]

RedrawRequested ==
    /\ Running
    /\ redraw_requested
    /\ control_flow' = "Poll"
    /\ right' = RightOf(camera_dir, right)
    /\ globals' = Redrawn(globals, pressed_keys, right', camera_dir, fly_speed,
                          size)
    /\ queue' = Append(queue, Encode(globals'))
    /\ frames' = frames + 1
    /\ redraw_requested' = FALSE
    /\ last' = [ev |-> "RedrawRequested", arg |-> <<>>]
    /\ UNCHANGED <<camera_dir, fly_speed, pressed_keys, size,
                   swap_chain_descriptor, fullscreen>>
    /\ UNCHANGED <<gpu_pc, globals_buffer, old_buffer, current_buffer>>
    /\ UNCHANGED <<disk, recent_press>>

-----------------------------------------------------------------------------
(* The GPU runs the submitted command buffers in order, one command at a   *)
(* time.                                                                    *)

NextCommand == queue[1][gpu_pc + 1]

ParticleData(buffer) == IF buffer = "old" THEN old_buffer ELSE current_buffer

GpuExecute ==
    /\ queue # <<>>
    /\ LET cmd == NextCommand IN
         /\ globals_buffer' =
              IF cmd.op = "copy_buffer_to_buffer" /\ cmd.dst = "globals"
              THEN cmd.data[1] ELSE globals_buffer
         /\ old_buffer' =
              IF cmd.op = "copy_buffer_to_buffer" /\ cmd.dst = "old"
              THEN Copied(cmd, ParticleData(cmd.src), old_buffer)
              ELSE old_buffer
         /\ current_buffer' =
              IF cmd.op = "copy_buffer_to_buffer" /\ cmd.dst = "current"
              THEN Copied(cmd, ParticleData(cmd.src), current_buffer)
              ELSE IF cmd.op = "render_pass"
              THEN VertexStage(globals_buffer, old_buffer, current_buffer,
                               cmd.draw)
              ELSE current_buffer
         /\ last' = [ev |-> "GpuExecute", arg |-> <<cmd.op>>]
    /\ IF gpu_pc + 1 = Len(queue[1])
       THEN queue' = Tail(queue) /\ gpu_pc' = 0
       ELSE queue' = queue /\ gpu_pc' = gpu_pc + 1
    /\ UNCHANGED host
    /\ UNCHANGED <<frames, disk, recent_press>>

-----------------------------------------------------------------------------
(* The event loop: the closure is called with one event at a time.  Each   *)
(* specification below delivers every kind of event; they differ in the    *)
(* inputs the events carry and in how many redraws they follow.            *)

Events(keys, wheel, yaws, pitches, sizes, factors, limit) ==
    \/ \E keycode \in keys : KeyPressed(keycode)
    \/ \E keycode \in keys : KeyReleased(keycode)
    \/ \E delta \in wheel : MouseWheel(delta)
    \/ \E qx \in yaws, qy \in pitches : MouseMotion(qx, qy)
    \/ \E new_size \in sizes, f \in factors : Resized(new_size, f)
    \/ CloseRequested
    \/ EventsCleared
    \/ OtherEvent
    \/ frames < limit /\ RedrawRequested

\* Frames: few inputs, and the GPU running what the frames submit
Next ==
    \/ Events({"Key1", "W"}, {LineDelta(0)}, {0}, {0}, {InitialSize}, {1},
              MaxFrames)
    \/ GpuExecute

Spec == Init /\ [][Next]_vars

\* Keyboard: every digit key, Escape and a key the program does not name,
\* followed through the first redraw
NextKeys ==
    Events(DigitKeys \cup {"Escape", "Q"}, {LineDelta(0)}, {0}, {0},
           {InitialSize}, {1}, 1)

SpecKeys == Init /\ [][NextKeys]_vars

\* Mouse wheel: line and pixel deltas below, inside and above the clamp
WheelDeltas ==
    {LineDelta(c) : c \in {-40, -8, -4, 0, 8, 32, 40}}
        \cup {PixelDelta(y) : y \in {-64, -32, 64, 320}}

NextWheel ==
    Events({"Q"}, WheelDeltas, {0}, {0}, {InitialSize}, {1}, MaxFrames)

SpecWheel == Init /\ [][NextWheel]_vars

\* Looking around: yaw by quarter turns, pitch by half turns
NextLook ==
    Events({"Q"}, {LineDelta(0)}, {0, 1, 2, 3}, {0, 2}, {InitialSize}, {1},
           MaxFrames)

SpecLook == Init /\ [][NextLook]_vars

\* Moving: the six movement keys, facing either way, at several speeds,
\* followed through the first redraw
NextMove ==
    Events(MoveKeys, {LineDelta(-40)}, {2}, {0}, {InitialSize}, {1}, 1)

SpecMove == Init /\ [][NextMove]_vars

\* Resizing: two logical sizes of different shape at two scale factors, with
\* the GPU running what the frames submit
ResizeSizes == {<<800, 600>>, <<640, 640>>}

NextResize ==
    \/ Events({"W"}, {LineDelta(0)}, {0}, {0}, ResizeSizes, {1, 2}, MaxFrames)
    \/ GpuExecute

SpecResize == Init /\ [][NextResize]_vars

\* Held keys: one key of each kind the Pressed handler tells apart (a digit,
\* Escape, F11), a movement key and a key the program does not name,
\* followed through the first redraw
NextHeld ==
    Events({"Key3", "Escape", "F11", "W", "Q"}, {LineDelta(0)}, {0}, {0},
           {InitialSize}, {1}, 1)

SpecHeld == Init /\ [][NextHeld]_vars

\* Camera: one movement key, with the direction, the fly speed and the
\* window's shape changing between the redraws
NextCamera ==
    Events({"W"}, {LineDelta(-40)}, {2}, {0}, {<<640, 640>>}, {1}, MaxFrames)

SpecCamera == Init /\ [][NextCamera]_vars

\* The loop as scheduled.  With ControlFlow::Poll (main.rs:338-342) the loop
\* never waits: it goes round again at once and ends every round with
\* EventsCleared, so EventsCleared cannot stay enabled for ever without being
\* delivered; and a redraw asked for with window.request_redraw() (main.rs:545)
\* is delivered by the window system as RedrawRequested.  Input events and
\* the GPU's progress are under no such obligation.
NextLive ==
    \/ Events({"Q"}, {LineDelta(0)}, {0}, {0}, {InitialSize}, {1}, MaxFrames)
    \/ GpuExecute

SpecLive ==
    /\ Init
    /\ [][NextLive]_vars
    /\ WF_vars(EventsCleared)
    /\ WF_vars(frames < MaxFrames /\ RedrawRequested)


-----------------------------------------------------------------------------
(* Command sequences *)

IsUpload(cmd) ==
    cmd.op = "copy_buffer_to_buffer" /\ cmd.src = "new_globals"
        /\ cmd.dst = "globals"

IsParticleCopy(cmd) ==
    cmd.op = "copy_buffer_to_buffer" /\ cmd.src = "current" /\ cmd.dst = "old"
        /\ cmd.bytes = 20002 * 48

IsRenderPass(cmd) ==
    cmd.op = "render_pass" /\ cmd.bind_group = <<"globals", "old", "current">>

IsComputeDispatch(cmd) == cmd.op = "compute_pass"

\* frames the GPU has finished
FramesDone == frames - Len(queue)

-----------------------------------------------------------------------------
(* C1 *)

\* C1, as stated: every submitted command sequence holds, in this order, the
\* copy of `current` into `old`, a dispatch of the compute stage, and the
\* render pass.
C1_CopyComputeRender ==
    \A n \in 1..Len(queue) :
        \E i, j, k \in 1..Len(queue[n]) :
            /\ i < j /\ j < k
            /\ IsParticleCopy(queue[n][i])
            /\ IsComputeDispatch(queue[n][j])
            /\ IsRenderPass(queue[n][k])

\* C1, amended: a redraw, and nothing else, submits exactly one command
\* sequence; it is the upload of the Globals computed in that redraw, then
\* the copy of the whole of `current` into `old`, then one render pass with
\* `old` and `current` bound; there is no compute dispatch in it, the draw of
\* the render pass is the only stage it runs.
C1_CopyThenRenderPass ==
    [][/\ last'.ev = "RedrawRequested" =>
            /\ frames' = frames + 1
            /\ Len(queue') = Len(queue) + 1
            /\ SubSeq(queue', 1, Len(queue)) = queue
            /\ LET cb == queue'[Len(queue')] IN
                 /\ Len(cb) = 3
                 /\ IsUpload(cb[1]) /\ cb[1].data = <<globals'>>
                 /\ IsParticleCopy(cb[2])
                 /\ IsRenderPass(cb[3])
                 /\ \A i \in 1..Len(cb) : ~IsComputeDispatch(cb[i])
       /\ last'.ev # "RedrawRequested" =>
            /\ frames' = frames
            /\ Len(queue') <= Len(queue)
      ]_vars

\* C1 witness: a second frame has just been submitted behind the first
C1_Witness ==
    last.ev = "RedrawRequested" /\ frames = 2 /\ Len(queue) = 2

-----------------------------------------------------------------------------
(* C2 *)

-----------------------------------------------------------------------------
(* C3 *)

\* C3: fly_speed is in [1e6, 1e10] in every reachable state
C3_FlySpeedInRange == 1000 <= fly_speed /\ fly_speed <= 10000000

\* C3 witness: a scroll has pushed fly_speed to the upper end
C3_Witness == last.ev = "MouseWheel" /\ fly_speed = 10000000

-----------------------------------------------------------------------------
(* C4 *)

\* C4: time_step is one of the ten table values in every reachable state
C4_TimeStepInSet ==
    globals.delta \in {0, 10, 20, 40, 80, 160, 320, 640, 1280, 2560}

\* C4 witness: the largest step has been selected
C4_Witness ==
    last.ev = "KeyPressed" /\ last.arg[1] = "Key9" /\ globals.delta = 2560

-----------------------------------------------------------------------------
(* C5 *)

TimeStepTable == <<0, 10, 20, 40, 80, 160, 320, 640, 1280, 2560>>

DigitOf(keycode) ==
    CHOOSE d \in 0..9 :
        keycode = <<"Key0", "Key1", "Key2", "Key3", "Key4", "Key5", "Key6",
                    "Key7", "Key8", "Key9">>[d + 1]

DigitPress(l) == l.ev = "KeyPressed" /\ l.arg[1] \in DigitKeys

\* C5: a press of digit key d sets time_step to the d-th table entry,
\* whatever it was and whatever is held; no other event changes time_step
C5_DigitSelects ==
    [][/\ DigitPress(last') =>
            globals'.delta = TimeStepTable[DigitOf(last'.arg[1]) + 1]
       /\ ~DigitPress(last') => globals'.delta = globals.delta
      ]_vars

\* C5 witness: digit 7 pressed while another key is held
C5_Witness ==
    /\ last.ev = "KeyPressed" /\ last.arg[1] = "Key7"
    /\ "Q" \in pressed_keys
    /\ globals.delta = 640


-----------------------------------------------------------------------------
(* C6 *)

Clamp(x, lo, hi) == IF x < lo THEN lo ELSE IF x > hi THEN hi ELSE x

\* scroll units of the wheel event recorded in l, in 64ths
UnitsOf(l) == IF l.arg[1] = "LineDelta" THEN 8 * l.arg[2] ELSE l.arg[2]

\* C6, as stated: a scroll of u units replaces fly_speed by
\* clamp(fly_speed * (1 + clamp(u, -4, 4)), 1e6, 1e10)
C6_ClampUnitsThenAdd ==
    [][last'.ev = "MouseWheel" =>
         fly_speed' =
           Clamp(Times64th(fly_speed, 64 + Clamp(UnitsOf(last'), -256, 256)),
                 1000, 10000000)
      ]_vars

\* C6, amended: a scroll of u units replaces fly_speed by
\* clamp(fly_speed * clamp(1 + u, 0.25, 4), 1e6, 1e10): the inner clamp is
\* applied to 1 + u, and to [0.25, 4]
C6_ClampFactor ==
    [][last'.ev = "MouseWheel" =>
         fly_speed' =
           Clamp(Times64th(fly_speed, Clamp(64 + UnitsOf(last'), 16, 256)),
                 1000, 10000000)
      ]_vars

\* C6 witness: a line scroll of 4 units has multiplied the initial speed by 4
C6_Witness ==
    /\ last.ev = "MouseWheel" /\ last.arg[1] = "LineDelta" /\ last.arg[2] = 32
    /\ fly_speed = 120000

-----------------------------------------------------------------------------
(* C7 *)

\* C7: particle_count is 20002 in the Globals block, in every uploaded copy
\* of it and in the GPU's copy, and every render pass draws 20002 points
C7_ParticleCountFixed ==
    /\ globals.particles = 20002
    /\ globals_buffer.particles = 20002
    /\ \A n \in 1..Len(queue) : \A i \in 1..Len(queue[n]) :
         /\ IsUpload(queue[n][i]) => queue[n][i].data[1].particles = 20002
         /\ queue[n][i].op = "render_pass" => queue[n][i].draw = 20002

\* C7 witness: after key presses and two redraws, a render pass is queued
C7_Witness ==
    /\ frames = 2 /\ globals.delta = 10 /\ "W" \in pressed_keys
    /\ queue # <<>> /\ NextCommand.op = "render_pass"
    /\ NextCommand.draw = globals.particles

-----------------------------------------------------------------------------
(* C8 *)

\* C8: no command the host submits has `current` as its destination, every
\* copy between the particle buffers reads `current`, and the contents of
\* `current` change only when the GPU runs a render pass (the external stage)
C8_HostNeverWritesCurrent ==
    /\ [](\A n \in 1..Len(queue) : \A i \in 1..Len(queue[n]) :
            queue[n][i].op = "copy_buffer_to_buffer" =>
              /\ queue[n][i].dst # "current"
              /\ queue[n][i].dst = "old" => queue[n][i].src = "current")
    /\ [][current_buffer' # current_buffer =>
            last'.ev = "GpuExecute" /\ last'.arg[1] = "render_pass"]_vars

\* C8 witness: the GPU has run a frame's copy after an earlier frame's step
C8_Witness ==
    /\ last.ev = "GpuExecute" /\ last.arg[1] = "copy_buffer_to_buffer"
    /\ NextCommand.op = "render_pass"
    /\ current_buffer.steps # <<>>
    /\ old_buffer = current_buffer

-----------------------------------------------------------------------------
(* C9 *)

\* C9: a Look event leaves `right` alone and pitches the yawed direction
\* about that `right`; `right` changes only in a redraw, which recomputes it
\* from the direction
C9_RightOnlyAtRedraw ==
    [][/\ last'.ev = "MouseMotion" =>
            /\ right' = right
            /\ camera_dir' =
                 RotateVector(right, last'.arg[2],
                              RotateVector(Vec(0, 1, 0), -last'.arg[1],
                                           camera_dir))
       /\ right' # right => last'.ev = "RedrawRequested"
       /\ last'.ev = "RedrawRequested" =>
            right' = Normalize(Cross(camera_dir, Vec(0, 1, 0)))
      ]_vars

\* C9 witness: after a redraw, a second Look in a row has pitched about an
\* axis that is no longer perpendicular to the direction
C9_Witness ==
    /\ last.ev = "MouseMotion" /\ last.arg[2] = 2
    /\ frames >= 1
    /\ right # Normalize(Cross(camera_dir, Vec(0, 1, 0)))
    /\ Dot(right, camera_dir) # 0

-----------------------------------------------------------------------------
(* C10 *)

\* the displacement C10 states, for one redraw
Displacement(keys, r, dir, speed) ==
    LET term(k, v) == IF k \in keys THEN v ELSE Vec(0, 0, 0)
    IN  VAdd(VAdd(VAdd(term("A", VScale(r, -speed)),
                       term("D", VScale(r, speed))),
                  VAdd(term("W", VScale(dir, speed)),
                       term("S", VScale(dir, -speed)))),
             VAdd(term("Space", Vec(0, -speed, 0)),
                  term("LShift", Vec(0, speed, 0))))

\* C10: a redraw displaces the camera once per held movement key, by the sum
\* of the keys' displacements along the recomputed right, the direction and
\* the vertical; with none held the position is unchanged
C10_MoveOncePerFrame ==
    [][last'.ev = "RedrawRequested" =>
         /\ globals'.camera_pos =
              VAdd(globals.camera_pos,
                   Displacement(pressed_keys, right', camera_dir, fly_speed))
         /\ pressed_keys \cap {"A", "D", "W", "S", "Space", "LShift"} = {} =>
              globals'.camera_pos = globals.camera_pos
      ]_vars

\* C10 witness: a redraw with two movement keys held, at a scrolled speed
C10_Witness ==
    /\ last.ev = "RedrawRequested"
    /\ pressed_keys = {"A", "LShift"}
    /\ fly_speed = 7500
    /\ globals.camera_pos # InitialCameraPos

-----------------------------------------------------------------------------
(* C11 *)

\* C11: a resize stores the new physical size (in `size` and in the swap
\* chain descriptor) and leaves the camera position, direction and right
\* vector, the fly speed, the time step, the particle count, the held keys
\* and both particle buffers as they were; every redraw builds its matrix
\* with the aspect ratio of the size stored at that moment, so the first
\* redraw after a resize uses the new one.
C11_ResizeOnlySize ==
    [][/\ last'.ev = "Resized" =>
            /\ size' = <<last'.arg[1] * last'.arg[3],
                         last'.arg[2] * last'.arg[3]>>
            /\ swap_chain_descriptor' =
                 [width |-> size'[1], height |-> size'[2]]
            /\ UNCHANGED <<globals, camera_dir, right, fly_speed,
                           pressed_keys, old_buffer, current_buffer,
                           globals_buffer, queue, frames>>
       /\ last'.ev = "RedrawRequested" =>
            /\ size' = size
            /\ globals'.matrix.perspective[1] * size[2]
                 = globals'.matrix.perspective[2] * size[1]
            /\ queue'[Len(queue')][1].data[1].matrix = globals'.matrix]_vars

\* a redraw that followed a resize from 4:3 to a square surface, while the
\* GPU holds integrated particles
C11_Witness ==
    /\ last.ev = "RedrawRequested"
    /\ size = <<1280, 1280>>
    /\ globals.matrix.perspective = <<1, 1>>
    /\ current_buffer.steps # <<>>

-----------------------------------------------------------------------------
(* C12 *)

\* the events after which the loop has been asked to stop
AsksToStop(l) ==
    l.ev = "CloseRequested" \/ (l.ev = "KeyPressed" /\ l.arg[1] = "Escape")

\* C12: the closure leaves *control_flow at Exit when, and only when, the
\* event it handled is the window's close request or a press of Escape; for
\* every other event it leaves Poll; and the event that asks to stop writes
\* none of the simulation state (Globals, camera, fly speed, the GPU buffers
\* and queue).
C12_ExitOnlyOnCloseOrEscape ==
    [][last'.ev # "GpuExecute" =>
         /\ control_flow' = "Exit" <=> AsksToStop(last')
         /\ ~AsksToStop(last') => control_flow' = "Poll"
         /\ AsksToStop(last') =>
              UNCHANGED <<globals, camera_dir, right, fly_speed, size, queue,
                          gpu_pc, globals_buffer, old_buffer, current_buffer,
                          frames>>]_vars

\* Escape pressed after a time step was chosen and a frame rendered
C12_Witness ==
    /\ control_flow = "Exit"
    /\ last = [ev |-> "KeyPressed", arg |-> <<"Escape">>]
    /\ globals.delta = 2560
    /\ frames = 1

-----------------------------------------------------------------------------
(* C13 *)

\* C13: `old` and `current` are created with the same size, 20002 * 48 bytes,
\* and every copy into `old` that a frame submits reads `current` from offset
\* 0, writes `old` from offset 0 and transfers exactly that many bytes, so it
\* covers both buffers whole; once the GPU has run it, `old` holds what
\* `current` holds.
C13_CopyCoversBothBuffers ==
    /\ BufferSize("old") = 20002 * 48
    /\ BufferSize("current") = 20002 * 48
    /\ \A i \in 1..Len(queue) : \A j \in 1..Len(queue[i]) :
          (queue[i][j].op = "copy_buffer_to_buffer"
             /\ "old" \in {queue[i][j].src, queue[i][j].dst})
          => /\ queue[i][j].src = "current"
             /\ queue[i][j].dst = "old"
             /\ queue[i][j].src_offset = 0
             /\ queue[i][j].dst_offset = 0
             /\ queue[i][j].bytes = 960096
    /\ (last = [ev |-> "GpuExecute", arg |-> <<"copy_buffer_to_buffer">>]
          /\ gpu_pc = 2)
        => old_buffer = current_buffer

\* two frames are queued and the GPU has just run the first one's copy,
\* over the seed
C13_Witness ==
    /\ Len(queue) = 2
    /\ gpu_pc = 2
    /\ last = [ev |-> "GpuExecute", arg |-> <<"copy_buffer_to_buffer">>]
    /\ old_buffer = Seed

-----------------------------------------------------------------------------
(* C14 *)

VSub(a, b) == <<a[1] - b[1], a[2] - b[2], a[3] - b[3]>>

\* the pushed particle's offset from its center, in units of 200 km
OffsetFromCenter == VSub(disk.particle.pos, disk.center.pos)

\* C14: every disk particle lies at a distance from its center between 4e8 m
\* and 4e8 + 3e9 m (2000 and 17000 units of 200 km), the sample u = 0 gives
\* exactly 4e8 m, and the offset has no component along the third axis.
C14_RadiusInRange ==
    disk.pc = "pushed" =>
        /\ OffsetFromCenter[3] = 0
        /\ Dot(OffsetFromCenter, OffsetFromCenter) >= 2000 * 2000
        /\ Dot(OffsetFromCenter, OffsetFromCenter) <= 17000 * 17000
        /\ disk.u = 0 => Dot(OffsetFromCenter, OffsetFromCenter) = 2000 * 2000

\* the sample u = 0 at an angle off both axes, around the first center
C14_Witness ==
    /\ disk.pc = "pushed"
    /\ disk.u = 0
    /\ disk.center = Center1
    /\ OffsetFromCenter = Vec(1200, 1600, 0)

-----------------------------------------------------------------------------
(* C15 *)

\* velocity relative to the center's, in units of 200 m/s
RelativeVelocity(particle, center) == VSub(particle.vel, center.vel)

\* C15: for the center, radius and angle of the pushed particle, the
\* velocity relative to the center and the one generate_galaxy gives with
\* the opposite `clockwise` are negations of each other, both lie in the
\* disk plane and are perpendicular to the offset from the center, and the
\* particle's third velocity component is the center's.
C15_OppositeSpin ==
    disk.pc = "pushed" =>
        LET mine == RelativeVelocity(disk.particle, disk.center)
            other ==
                RelativeVelocity(DiskParticle(disk.center, ~disk.clockwise,
                                              disk.u, disk.angle),
                                 disk.center)
        IN  /\ mine = VNeg(other)
            /\ mine # Vec(0, 0, 0)
            /\ mine[3] = 0 /\ other[3] = 0
            /\ Dot(OffsetFromCenter, mine) = 0
            /\ Dot(OffsetFromCenter, other) = 0
            /\ disk.particle.vel[3] = disk.center.vel[3]

\* a clockwise particle off both axes, moving at the u = 0 orbital speed of
\* 408 km/s
C15_Witness ==
    /\ disk.pc = "pushed"
    /\ disk.clockwise
    /\ disk.angle = <<3, 4>>
    /\ RelativeVelocity(disk.particle, disk.center) = Vec(-1632, 1224, 0)

-----------------------------------------------------------------------------
(* C16 *)

\* C16: as long as the loop has not been asked to stop, every EventsCleared
\* leaves a redraw requested; under the loop's scheduling every EventsCleared
\* is followed by a redraw, and every frame count below the horizon
\* MaxFrames is eventually exceeded, whether or not any input arrives.
C16_RedrawsRecur ==
    /\ [][last'.ev = "EventsCleared" => redraw_requested']_vars
    /\ (last.ev = "EventsCleared" /\ frames < MaxFrames)
          ~> (last.ev = "RedrawRequested" \/ ~Running)
    /\ \A n \in 0..(MaxFrames - 1) :
          (frames = n) ~> (frames = n + 1 \/ ~Running)

\* two frames rendered and the loop still polling, with no key held, the
\* speed, direction and time step untouched
C16_Witness ==
    /\ frames = 2
    /\ Running
    /\ last.ev = "RedrawRequested"
    /\ pressed_keys = {}
    /\ globals.delta = 0
    /\ globals.camera_pos = InitialCameraPos

-----------------------------------------------------------------------------
(* C17 *)

\* C17: the Globals block a redraw uploads is the block as that redraw
\* leaves it: moved, with the matrix rebuilt at the moved position and the
\* current direction, with the time step the key events have set and the
\* particle count 20002; the command sequence holds exactly one upload, ahead
\* of its render pass; and when the GPU starts a frame's render pass the
\* parameter buffer holds the block uploaded by that same sequence.
C17_UploadIsThisRedraws ==
    [][/\ last'.ev = "RedrawRequested" =>
            LET cb == queue'[Len(queue')] IN
              /\ \E i, j \in 1..Len(cb) :
                    /\ i < j
                    /\ IsUpload(cb[i]) /\ IsRenderPass(cb[j])
                    /\ cb[i].data = <<globals'>>
                    /\ \A k \in 1..Len(cb) : IsUpload(cb[k]) => k = i
              /\ globals'.matrix.translation = globals'.camera_pos
              /\ globals'.matrix.look_at_dir[1] = globals'.camera_pos
              /\ globals'.matrix.look_at_dir[2] = camera_dir
              /\ globals'.delta = globals.delta
              /\ globals'.particles = 20002
       /\ (last'.ev = "GpuExecute" /\ last'.arg[1] = "render_pass") =>
            \E i \in 1..gpu_pc :
                IsUpload(queue[1][i]) /\ globals_buffer = queue[1][i].data[1]
      ]_vars

\* the GPU has just run the render pass of the second frame, submitted after
\* a time step was chosen and the camera had moved
C17_Witness ==
    /\ last = [ev |-> "GpuExecute", arg |-> <<"render_pass">>]
    /\ frames = 2 /\ queue = <<>>
    /\ globals_buffer.delta = 10
    /\ globals_buffer.camera_pos # InitialCameraPos
    /\ globals_buffer = globals

-----------------------------------------------------------------------------
(* C18 *)

\* C18: nothing is submitted before the first redraw; in every submitted
\* command sequence each pass that has `old` bound comes after a copy of
\* `current` into `old`; and whenever the GPU is about to run a render pass,
\* the first one included, `old` has been written.
C18_OldWrittenBeforeRead ==
    /\ frames = 0 => queue = <<>>
    /\ \A n \in 1..Len(queue) : \A j \in 1..Len(queue[n]) :
          (queue[n][j].op = "render_pass"
             /\ \E b \in 1..3 : queue[n][j].bind_group[b] = "old")
          => \E i \in 1..(j - 1) : IsParticleCopy(queue[n][i])
    /\ (queue # <<>> /\ NextCommand.op = "render_pass") => old_buffer.init

\* the GPU is about to run the very first render pass
C18_Witness ==
    /\ frames = 1
    /\ queue # <<>> /\ NextCommand.op = "render_pass"
    /\ old_buffer = Seed
    /\ current_buffer = Seed

-----------------------------------------------------------------------------
(* C19 *)

\* C19: in every reachable state a key is in pressed_keys exactly if the
\* latest keyboard event for that key was a press; this holds for every key,
\* the digit keys, Escape and F11 included, and the set starts empty.
C19_HeldIffLastPress ==
    \A keycode \in VirtualKeyCode :
        keycode \in pressed_keys <=> keycode \in recent_press

\* a digit key and F11 are held, each after having been pressed, released
\* and pressed again (F11 pressed twice leaves the window not fullscreen)
C19_Witness ==
    /\ pressed_keys = {"Key3", "F11"}
    /\ globals.delta = 40
    /\ ~fullscreen
    /\ last = [ev |-> "KeyPressed", arg |-> <<"F11">>]

-----------------------------------------------------------------------------
(* C20 *)

\* C20: globals.camera_pos and globals.matrix change in no step but a
\* redraw: a key press or release, a pointer motion, a scroll, a resize and
\* every other event leave both as they were; a redraw displaces the camera
\* exactly if the movement key is held when it runs, so a key pressed and
\* released between two redraws displaces nothing and a key held across k
\* redraws displaces k times.
C20_CameraOnlyAtRedraw ==
    [][/\ last'.ev # "RedrawRequested" =>
            /\ globals'.camera_pos = globals.camera_pos
            /\ globals'.matrix = globals.matrix
       /\ last'.ev = "RedrawRequested" =>
            /\ globals'.camera_pos # globals.camera_pos
                  <=> "W" \in pressed_keys
            /\ globals'.matrix.translation = globals'.camera_pos]_vars

\* W held across two redraws: two displacements of 30000 along the initial
\* direction, in a window resized to a square
C20_Witness ==
    /\ last.ev = "RedrawRequested"
    /\ frames = 2
    /\ "W" \in pressed_keys
    /\ globals.camera_pos = Vec(19940000, 0, 0)
    /\ globals.matrix.perspective = <<1, 1>>

=============================================================================
